---- MODULE Spec2Model ----
(***************************************************************************)
(* State-machine model of the cache of toba/node-tools.                    *)
(*                                                                         *)
(*   Cache<T>        src/src/cache.ts (and its older copy in               *)
(*                   src/unnamed/part_000, lines 121-280)                  *)
(*   CompressCache   src/unnamed/part_000, lines 285-386                   *)
(*   gzip, unzip,                                                          *)
(*   byteSize        src/unnamed/part_001                                  *)
(*                                                                         *)
(* JavaScript runs the code single threaded: every action below is one     *)
(* run-to-completion piece of code (a public call up to its first await,   *)
(* a timer callback, or the continuation of a completed asynchronous       *)
(* primitive).                                                             *)
(***************************************************************************)
EXTENDS Integers, Sequences, FiniteSets, TLC

(***************************************************************************)
(* Bounds of the model.                                                    *)
(***************************************************************************)
\* the clock runs over 0..MaxTime
MaxTime == 2
\* pending timeouts the event loop is allowed to hold
MaxTimers == 2
\* calls of addText, getZip and getText made on a CompressCache, the addText
\* calls its loader branches make included
MaxCalls == 4

Keys == {"k1", "k2", "k3"}

(***************************************************************************)
(* JavaScript values.  A string or a Buffer is its sequence of code units  *)
(* or bytes; an object stands for any value byteSize cannot measure.       *)
(***************************************************************************)
Null == [t |-> "null", d |-> <<>>]
Obj == [t |-> "object", d |-> <<>>]
Str(s) == [t |-> "string", d |-> s]
Buf(b) == [t |-> "buffer", d |-> b]

\* a call of a public method with its arguments, and the value it returned
Returned(op, args, value) == [op |-> op, args |-> args, value |-> value]

\* no call that returns a value was made last
NoCall == Returned("none", <<>>, Null)

\* is.value(x): x is neither undefined nor null
IsValue(x) == x.t # "null"

\* is.empty(x): x is undefined, null or the empty string
IsEmpty(x) == x.t = "null" \/ (x.t = "string" /\ x.d = <<>>)

\* byteSize(obj): the length of a string or Buffer, -1 for anything else
ByteSize(obj) == IF obj.t \in {"string", "buffer"} THEN Len(obj.d) ELSE -1

\* what the callers of Cache<T>.add pass: two strings under every key, and the
\* absent value, the empty string and an unmeasurable value under one key each
AddInputs ==
    (Keys \X {Str(<<1>>), Str(<<1, 2>>)})
        \cup {<<"k1", Null>>, <<"k2", Str(<<>>)>>, <<"k3", Obj>>}

(***************************************************************************)
(* Policies.  A caller passes a partial policy: a function on some of the  *)
(* three field names.  merge(defaultPolicy, policy) fills in the others.   *)
(***************************************************************************)
PolicyFields == {"maxItems", "maxAge", "maxBytes"}

defaultPolicy == [maxItems |-> 0, maxAge |-> 0, maxBytes |-> 0]

Merge(base, given) ==
    [f \in DOMAIN base |-> IF f \in DOMAIN given THEN given[f] ELSE base[f]]

\* the thresholds callers use
MaxItemsInputs == {1, 2}
MaxAgeInputs == {1}
MaxBytesInputs == {2}

FieldInputs(f) ==
    IF f = "maxItems" THEN MaxItemsInputs
    ELSE IF f = "maxAge" THEN MaxAgeInputs ELSE MaxBytesInputs

PolicyInputs ==
    UNION {{p \in [fs -> MaxItemsInputs \cup MaxAgeInputs \cup MaxBytesInputs] :
               \A f \in fs : p[f] \in FieldInputs(f)} :
           fs \in SUBSET PolicyFields}

VARIABLES
    items,           \* Cache.items: the Map, as its entries in insertion order
    policy,          \* Cache.policy
    canMeasureSize,  \* Cache.canMeasureSize
    evictTimer,      \* Cache.evictTimer: the handle last returned by setTimeout, 0 = undefined
    timers,          \* the event loop: handles of the timeouts that are pending
    now,             \* new Date().getTime()
    emitted,         \* what the last step passed to events.emit, in order
    hung,            \* a prune pass that never returns blocks the event loop
    pruneRuns,       \* history: prune passes run since the last schedulePrune
    loader,          \* CompressCache.loader: TRUE when one was given (loader !== null)
    zipBuffer,       \* CompressCache.zipBuffer: key -> text being zipped
    zipQueue,        \* CompressCache.zipQueue: key -> the resolvers waiting, as call ids
    calls,           \* the calls made so far, in the order made, each with its promise
    notified,        \* the calls whose resolver the last step ran, in order
    evictedKeys,     \* history: keys evicted since their last addText
    returned,        \* what the last call of get, contains, length or size returned
    observed,        \* what the ItemsEvicted listener saw of each key of the payload
    recent,          \* history: key -> value added since the last prune, remove or clear
    tightened        \* history: the last updatePolicy replaced a no-limit policy by a
                     \* restrictive one the contents violate, and add was not called since

zipVars == <<loader, zipBuffer, zipQueue, calls, notified, evictedKeys>>

useVars == <<returned, observed, recent, tightened>>

vars == <<items, policy, canMeasureSize, evictTimer, timers, now, emitted, hung,
          pruneRuns, zipVars, useVars>>

(***************************************************************************)
(* Sequence helpers (Array.prototype.map / filter / indexOf).              *)
(***************************************************************************)
InSeq(x, s) == \E i \in 1..Len(s) : s[i] = x

KeysOf(its) == [i \in 1..Len(its) |-> its[i].key]

KeySet(its) == {its[i].key : i \in 1..Len(its)}

\* its.filter(i => remove.indexOf(i.key) == -1)
Without(its, remove) ==
    LET Keep(i) == ~InSeq(i.key, remove) IN SelectSeq(its, Keep)

(***************************************************************************)
(* totalSize(items, except): the sizes of the entries whose key is not in  *)
(* except, summed by reduce from the first entry on.                       *)
(***************************************************************************)
RECURSIVE SumSizes(_)
SumSizes(its) == IF its = <<>> THEN 0 ELSE its[1].size + SumSizes(Tail(its))

\* mutant of TotalSize: the except list is ignored
TotalSizeOfAll(its, except) == SumSizes(its)

TotalSize(its, except) == SumSizes(Without(its, except))

\* get size(): the total, or -1 once a value could not be measured
Size == IF canMeasureSize THEN TotalSize(items, <<>>) ELSE -1

(***************************************************************************)
(* Map.set: an entry of a key already present is replaced where it stands, *)
(* a new key is appended (a Map iterates in insertion order).              *)
(***************************************************************************)
\* mutant of MapSet: the entry is appended whether or not the key is present
MapSetAppend(its, e) == Append(its, e)

MapSet(its, e) ==
    IF e.key \in KeySet(its)
    THEN [i \in 1..Len(its) |-> IF its[i].key = e.key THEN e ELSE its[i]]
    ELSE Append(its, e)

\* mutant of MapDelete: nothing is deleted
MapDeleteNone(its, key) == its

\* Map.delete
MapDelete(its, key) == Without(its, <<key>>)

(***************************************************************************)
(* schedulePrune: clearTimeout(evictTimer) if one was ever set, then       *)
(* setTimeout(prune, 10).  Handles are only compared for identity, so the  *)
(* handle setTimeout returns is any positive one that is not pending.      *)
(***************************************************************************)
ClearTimeout(pending, handle) == pending \ {handle}

\* mutant of AfterClear: the pending timeout is never cancelled
AfterClearNever == timers

\* the timeouts left pending by the first statement of schedulePrune
AfterClear == IF evictTimer # 0 THEN ClearTimeout(timers, evictTimer) ELSE timers

FreshTimer(pending) ==
    CHOOSE h \in 1..MaxTimers : h \notin pending /\ \A g \in 1..(h - 1) : g \in pending

SchedulePrune ==
    /\ Cardinality(AfterClear) < MaxTimers
    /\ evictTimer' = FreshTimer(AfterClear)
    /\ timers' = AfterClear \cup {FreshTimer(AfterClear)}
    /\ pruneRuns' = 0

(***************************************************************************)
(* add(key, value)                                                         *)
(***************************************************************************)
\* the size add records for a value, given the flag it finds
AddSize(value, measurable) ==
    IF measurable /\ ByteSize(value) # -1 THEN ByteSize(value) ELSE 0

\* mutant of AddMeasurable: the flag follows the value added last
AddMeasurableLatest(value, measurable) ==
    IF IsValue(value) THEN ByteSize(value) # -1 ELSE measurable

\* the flag add leaves
AddMeasurable(value, measurable) ==
    IF IsValue(value) /\ measurable /\ ByteSize(value) = -1 THEN FALSE ELSE measurable

\* mutant of CacheAdd: an absent value returns before the prune is scheduled
CacheAddGuarded(key, value) ==
    IF IsValue(value)
    THEN /\ items' = MapSet(items, [key |-> key, value |-> value, added |-> now,
                                    size |-> AddSize(value, canMeasureSize)])
         /\ canMeasureSize' = AddMeasurable(value, canMeasureSize)
         /\ SchedulePrune
    ELSE UNCHANGED <<items, canMeasureSize, evictTimer, timers, pruneRuns>>

CacheAdd(key, value) ==
    /\ items' = IF IsValue(value)
                THEN MapSet(items, [key |-> key, value |-> value, added |-> now,
                                    size |-> AddSize(value, canMeasureSize)])
                ELSE items
    /\ canMeasureSize' = AddMeasurable(value, canMeasureSize)
    /\ SchedulePrune

Add(key, value) ==
    /\ ~hung
    /\ CacheAdd(key, value)
    /\ emitted' = <<>>
    /\ UNCHANGED <<policy, now, hung, zipVars, useVars>>

(***************************************************************************)
(* updatePolicy(policy)                                                    *)
(***************************************************************************)
\* mutant of UpdatePolicy: the given policy is merged over the previous one
UpdatePolicyOverPrevious(given) ==
    /\ ~hung
    /\ policy' = Merge(policy, given)
    /\ SchedulePrune
    /\ emitted' = <<>>
    /\ UNCHANGED <<items, canMeasureSize, now, hung, zipVars, useVars>>

UpdatePolicy(given) ==
    /\ ~hung
    /\ policy' = Merge(defaultPolicy, given)
    /\ SchedulePrune
    /\ emitted' = <<>>
    /\ UNCHANGED <<items, canMeasureSize, now, hung, zipVars, useVars>>

(***************************************************************************)
(* prune(): the three passes.  Each pass takes and returns the pair of the *)
(* local variables remove (keys to delete, in order) and sorted (the       *)
(* working list).                                                          *)
(***************************************************************************)
\* where sort puts e in an already sorted list: behind every entry that is not
\* younger (the comparator a.added - b.added, ties left in their order)
InsertByAdded(sorted, e) ==
    LET n == Cardinality({i \in 1..Len(sorted) : sorted[i].added <= e.added})
    IN  SubSeq(sorted, 1, n) \o <<e>> \o SubSeq(sorted, n + 1, Len(sorted))

RECURSIVE SortByAdded(_)
SortByAdded(its) ==
    IF its = <<>> THEN <<>>
    ELSE InsertByAdded(SortByAdded(SubSeq(its, 1, Len(its) - 1)), its[Len(its)])

\* mutant of AgePass: the entry exactly maxAge old is evicted too
AgePassInclusive(st, pol, time) ==
    IF pol.maxAge > 0
    THEN LET oldest == time - pol.maxAge
             TooOld(i) == i.added <= oldest
             remove == st.remove \o KeysOf(SelectSeq(st.sorted, TooOld))
         IN  [remove |-> remove, sorted |-> Without(st.sorted, remove)]
    ELSE st

\* first remove those that exceed maximum age
AgePass(st, pol, time) ==
    IF pol.maxAge > 0
    THEN LET oldest == time - pol.maxAge
             TooOld(i) == i.added < oldest
             remove == st.remove \o KeysOf(SelectSeq(st.sorted, TooOld))
         IN  [remove |-> remove, sorted |-> Without(st.sorted, remove)]
    ELSE st

\* mutant of CountPass: the youngest entries are cut instead of the oldest
CountPassYoungest(st, pol) ==
    IF pol.maxItems > 0 /\ Len(st.sorted) > pol.maxItems
    THEN LET remove == st.remove \o KeysOf(SubSeq(st.sorted, pol.maxItems + 1,
                                                  Len(st.sorted)))
         IN  [remove |-> remove, sorted |-> Without(st.sorted, remove)]
    ELSE st

\* mutant of CountPass: the keys cut are listed but stay in the working list
CountPassUnfiltered(st, pol) ==
    IF pol.maxItems > 0 /\ Len(st.sorted) > pol.maxItems
    THEN LET tooMany == Len(st.sorted) - pol.maxItems
             remove == st.remove \o KeysOf(SubSeq(st.sorted, 1, tooMany))
         IN  [remove |-> remove, sorted |-> st.sorted]
    ELSE st

\* then remove items beyond the maximum count
CountPass(st, pol) ==
    IF pol.maxItems > 0 /\ Len(st.sorted) > pol.maxItems
    THEN LET tooMany == Len(st.sorted) - pol.maxItems
             remove == st.remove \o KeysOf(SubSeq(st.sorted, 1, tooMany))
         IN  [remove |-> remove, sorted |-> Without(st.sorted, remove)]
    ELSE st

\* while (remainingSize > maxBytes) { item = sorted.shift(); ... }
\* With nothing left to shift the loop of cache.ts spins for ever (part_000
\* throws a TypeError instead): hang.
RECURSIVE ByteLoop(_, _, _, _)
ByteLoop(sorted, remainingSize, remove, maxBytes) ==
    IF remainingSize > maxBytes
    THEN IF sorted = <<>>
         THEN [remove |-> remove, sorted |-> sorted, hang |-> TRUE]
         ELSE ByteLoop(Tail(sorted), remainingSize - Head(sorted).size,
                       Append(remove, Head(sorted).key), maxBytes)
    ELSE [remove |-> remove, sorted |-> sorted, hang |-> FALSE]

\* mutant of ByteLoop: the loop goes on while the total has only reached the limit
RECURSIVE ByteLoopInclusive(_, _, _, _)
ByteLoopInclusive(sorted, remainingSize, remove, maxBytes) ==
    IF remainingSize >= maxBytes
    THEN IF sorted = <<>>
         THEN [remove |-> remove, sorted |-> sorted, hang |-> TRUE]
         ELSE ByteLoopInclusive(Tail(sorted), remainingSize - Head(sorted).size,
                                Append(remove, Head(sorted).key), maxBytes)
    ELSE [remove |-> remove, sorted |-> sorted, hang |-> FALSE]

\* mutant of BytePass
BytePassInclusive(st, its, pol, measurable) ==
    IF pol.maxBytes > 0 /\ measurable
    THEN ByteLoopInclusive(st.sorted, TotalSize(its, st.remove), st.remove,
                           pol.maxBytes)
    ELSE [remove |-> st.remove, sorted |-> st.sorted, hang |-> FALSE]

\* finally remove as many as are needed to go below maximum byte size
BytePass(st, its, pol, measurable) ==
    IF pol.maxBytes > 0 /\ measurable
    THEN ByteLoop(st.sorted, TotalSize(its, st.remove), st.remove, pol.maxBytes)
    ELSE [remove |-> st.remove, sorted |-> st.sorted, hang |-> FALSE]

\* the body of prune's if: what it decides to remove
PrunePasses(its, pol, measurable, time) ==
    BytePass(CountPass(AgePass([remove |-> <<>>, sorted |-> SortByAdded(its)],
                               pol, time),
                       pol),
             its, pol, measurable)

\* the guard of prune's if
PruneActive(its, pol) ==
    Len(its) > 0 /\ (pol.maxAge # 0 \/ pol.maxItems # 0 \/ pol.maxBytes # 0)

\* the keys a prune pass removes, in the order of the ItemsEvicted payload
PruneRemove(its, pol, measurable, time) ==
    IF PruneActive(its, pol) THEN PrunePasses(its, pol, measurable, time).remove
    ELSE <<>>

PruneHangs(its, pol, measurable, time) ==
    PruneActive(its, pol) /\ PrunePasses(its, pol, measurable, time).hang

\* mutant of Evicted: the payload names every removed key twice
EvictedTwice(remove) == [type |-> "ItemsEvicted", payload |-> remove \o remove]

Evicted(remove) == [type |-> "ItemsEvicted", payload |-> remove]

Prune ==
    IF PruneHangs(items, policy, canMeasureSize, now)
    THEN /\ hung' = TRUE
         /\ UNCHANGED <<items, emitted>>
    ELSE LET remove == PruneRemove(items, policy, canMeasureSize, now)
         IN  /\ items' = Without(items, remove)
             /\ emitted' = IF Len(remove) > 0 THEN <<Evicted(remove)>> ELSE <<>>
             /\ hung' = hung

\* the timeout armed by schedulePrune fires
TimerFire(h) ==
    /\ ~hung
    /\ h \in timers
    /\ timers' = timers \ {h}
    /\ Prune
    /\ pruneRuns' = pruneRuns + 1
    /\ UNCHANGED <<policy, canMeasureSize, evictTimer, now, zipVars, useVars>>

\* the clock advances
Tick ==
    /\ ~hung
    /\ now < MaxTime
    /\ now' = now + 1
    /\ emitted' = <<>>
    /\ UNCHANGED <<items, policy, canMeasureSize, evictTimer, timers, hung,
                   pruneRuns, zipVars, useVars>>

(***************************************************************************)
(* The cache engine: new Cache(policy), then any calls, timeouts and       *)
(* clock ticks.                                                            *)
(***************************************************************************)
Init ==
    /\ items = <<>>
    /\ policy \in {Merge(defaultPolicy, given) : given \in PolicyInputs}
    /\ canMeasureSize = TRUE
    /\ evictTimer = 0
    /\ timers = {}
    /\ now = 0
    /\ emitted = <<>>
    /\ hung = FALSE
    /\ pruneRuns = 0
    /\ loader = FALSE
    /\ zipBuffer = <<>>
    /\ zipQueue = <<>>
    /\ calls = <<>>
    /\ notified = <<>>
    /\ evictedKeys = {}
    /\ returned = NoCall
    /\ observed = <<>>
    /\ recent = <<>>
    /\ tightened = FALSE

Next ==
    \/ \E input \in AddInputs : Add(input[1], input[2])
    \/ \E given \in PolicyInputs : UpdatePolicy(given)
    \/ \E h \in timers : TimerFire(h)
    \/ Tick

Spec == Init /\ [][Next]_vars

(***************************************************************************)
(* A cache made with maxItems = 1 whose policy is then replaced by         *)
(* policies that leave maxItems out.                                       *)
(***************************************************************************)
RevertAdds == Keys \X {Str(<<1>>)}

RevertInputs == {p \in PolicyInputs : "maxItems" \notin DOMAIN p}

InitRevert == Init /\ policy = Merge(defaultPolicy, [maxItems |-> 1])

NextRevert ==
    \/ \E input \in RevertAdds : Add(input[1], input[2])
    \/ \E given \in RevertInputs : UpdatePolicy(given)
    \/ \E h \in timers : TimerFire(h)
    \/ Tick

SpecRevert == InitRevert /\ [][NextRevert]_vars

(***************************************************************************)
(* A cache with maxAge = 1 to which absent values are added as well.       *)
(***************************************************************************)
AbsentKeys == {"k1", "k2"}

AbsentValues == {Null, Str(<<1>>), Obj}

InitAbsent == Init /\ policy = Merge(defaultPolicy, [maxAge |-> 1])

NextAbsent ==
    \/ \E key \in AbsentKeys, value \in AbsentValues : Add(key, value)
    \/ \E h \in timers : TimerFire(h)
    \/ Tick

SpecAbsent == InitAbsent /\ [][NextAbsent]_vars

(***************************************************************************)
(* A cache with a byte limit, alone or with the other limits, holding      *)
(* strings of size 0, of size 1 and of a size above the limit.             *)
(***************************************************************************)
ByteValues == {Str(<<>>), Str(<<1>>), Str(<<1, 2, 3>>)}

BytePolicyInputs == {p \in PolicyInputs : "maxBytes" \in DOMAIN p}

InitBytes ==
    /\ Init
    /\ policy \in {Merge(defaultPolicy, given) : given \in BytePolicyInputs}

NextBytes ==
    \/ \E key \in Keys, value \in ByteValues : Add(key, value)
    \/ \E h \in timers : TimerFire(h)
    \/ Tick

SpecBytes == InitBytes /\ [][NextBytes]_vars

(***************************************************************************)
(* CompressCache (src/unnamed/part_000, lines 285-386).                    *)
(*                                                                         *)
(* gzip and unzip stand for zlib: gzip frames the text between a header    *)
(* and a length trailer, unzip takes the frame off again.                  *)
(***************************************************************************)
Gzip(text) == Buf(<<31, 139>> \o text.d \o <<Len(text.d)>>)

Unzip(value) == Str(SubSeq(value.d, 3, Len(value.d) - 1))

\* what queue.forEach throws when the queue is undefined
TypeError == [t |-> "error", d |-> <<>>]

ZipKeys == {"k1", "k2"}

\* the texts callers pass to addText, and the texts a loader resolves with
Texts == {Str(<<>>), Str(<<1>>), Str(<<2>>)}
LoaderTexts == {Str(<<>>), Str(<<3>>)}

\* Map.set and Map.delete on zipBuffer and zipQueue
MapPut(m, key, value) ==
    [k \in DOMAIN m \cup {key} |-> IF k = key THEN value ELSE m[k]]

MapDel(m, key) == [k \in DOMAIN m \ {key} |-> m[k]]

\* contains(key, allowEmpty): is.empty is asked of the CacheItem, an object
Contains(its, key, allowEmpty) ==
    key \in KeySet(its) /\ (allowEmpty \/ ~IsEmpty(Obj))

\* get(key): the value stored, or null
GetValue(its, key) ==
    IF key \in KeySet(its)
    THEN (CHOOSE e \in {its[i] : i \in 1..Len(its)} : e.key = key).value
    ELSE Null

KeyNotFound(key) == [type |-> "KeyNotFound", payload |-> key]

\* mutant of GetEvents: get notifies of a present key too
GetEventsAlways(its, key) == <<KeyNotFound(key)>>

\* what get(key) emits
GetEvents(its, key) ==
    IF key \in KeySet(its) THEN <<>> ELSE <<KeyNotFound(key)>>

(***************************************************************************)
(* A call and its promise.  phase says what the call waits for ("gzip",    *)
(* "queued": a resolver in zipQueue, "loader", "addText": the addText of   *)
(* the loader branch, "unzip", "reload": getText's own loader call) or how *)
(* it ended ("resolved", "rejected"); result is what it resolved with, or  *)
(* the bytes getText holds while it unzips.  parent is the getZip that     *)
(* waits for this addText.  branch, inflight and expect are history: the   *)
(* branch the call took when made, the compressions of its key that were   *)
(* pending then, and the text the round trip should give (Null: none).     *)
(***************************************************************************)
Pending(key) ==
    {i \in 1..Len(calls) :
        calls[i].op = "addText" /\ calls[i].key = key /\ calls[i].phase = "gzip"}

AddTexts(key) ==
    {i \in 1..Len(calls) :
        calls[i].op = "addText" /\ calls[i].key = key /\ ~IsEmpty(calls[i].text)}

Latest(ids) == CHOOSE i \in ids : \A j \in ids : j <= i

Expect(key) ==
    IF /\ AddTexts(key) # {}
       /\ key \notin evictedKeys
       /\ (Cardinality(AddTexts(key)) = 1 \/ Pending(key) = {})
    THEN calls[Latest(AddTexts(key))].text
    ELSE Null

Call(op, key, text, phase, result, parent, branch) ==
    [op |-> op, key |-> key, text |-> text, phase |-> phase, result |-> result,
     parent |-> parent, branch |-> branch, inflight |-> Pending(key),
     expect |-> Expect(key)]

Settle(c, phase, result) == [c EXCEPT !.phase = phase, !.result = result]

\* a getZip promise resolved with bytes: what the call waiting on it does next
\* (getText, lines 374-384: reload on null if there is a loader, else unzip)
Continue(c, bytes) ==
    IF c.op = "getZip" THEN Settle(c, "resolved", bytes)
    ELSE IF bytes = Null
         THEN IF loader THEN Settle(c, "reload", Null) ELSE Settle(c, "resolved", Null)
         ELSE Settle(c, "unzip", bytes)

\* beginZip(key, value)
BeginZip(key, value) ==
    /\ zipBuffer' = MapPut(zipBuffer, key, value)
    /\ zipQueue' = MapPut(zipQueue, key, <<>>)

\* the part of addText that runs at once; parent is the getZip waiting for it
StartAddText(key, value, parent) ==
    IF IsEmpty(value)
    THEN /\ calls' = Append(calls, Call("addText", key, value, "resolved", Null,
                                        parent, "empty"))
         /\ UNCHANGED <<zipBuffer, zipQueue, evictedKeys>>
    ELSE /\ BeginZip(key, value)
         /\ calls' = Append(calls, Call("addText", key, value, "gzip", Null,
                                        parent, "zip"))
         /\ evictedKeys' = evictedKeys \ {key}

\* addText(key, value), up to its await
AddText(key, value) ==
    /\ ~hung
    /\ Len(calls) < MaxCalls
    /\ StartAddText(key, value, 0)
    /\ emitted' = <<>>
    /\ notified' = <<>>
    /\ UNCHANGED useVars
    /\ UNCHANGED <<items, policy, canMeasureSize, evictTimer, timers, now, hung,
                   pruneRuns, loader>>

\* gzip resolves: the rest of addText (endZip, super.add) and then of the
\* getZip that waits for it (super.get).  endZip throws when another addText
\* of the key has taken the queue away.
GzipDone(a) ==
    /\ ~hung
    /\ a \in 1..Len(calls)
    /\ calls[a].op = "addText"
    /\ calls[a].phase = "gzip"
    /\ LET key == calls[a].key
           zipped == Gzip(calls[a].text)
       IN  /\ zipBuffer' = MapDel(zipBuffer, key)
           /\ zipQueue' = MapDel(zipQueue, key)
           /\ IF key \in DOMAIN zipQueue
              THEN /\ notified' = zipQueue[key]
                   /\ CacheAdd(key, zipped)
                   /\ calls' = [i \in 1..Len(calls) |->
                                   IF i = a THEN Settle(calls[i], "resolved", Null)
                                   ELSE IF InSeq(i, zipQueue[key])
                                   THEN Continue(calls[i], zipped)
                                   ELSE IF i = calls[a].parent
                                   THEN Continue(calls[i], GetValue(items', key))
                                   ELSE calls[i]]
              ELSE /\ notified' = <<>>
                   /\ calls' = [i \in 1..Len(calls) |->
                                   IF i = a \/ i = calls[a].parent
                                   THEN Settle(calls[i], "rejected", TypeError)
                                   ELSE calls[i]]
                   /\ UNCHANGED <<items, canMeasureSize, evictTimer, timers,
                                  pruneRuns>>
    /\ emitted' = <<>>
    /\ UNCHANGED useVars
    /\ UNCHANGED <<policy, now, hung, loader, evictedKeys>>

\* the branch getZip(key) takes
ZipBranch(key) ==
    IF Contains(items, key, FALSE) THEN "stored"
    ELSE IF key \in DOMAIN zipQueue THEN "queued"
    ELSE IF loader THEN "loader"
    ELSE "absent"

\* getZip(key) made by call op ("getZip" itself, or "getText" awaiting it)
StartGetZip(op, key) ==
    LET id == Len(calls) + 1
        branch == ZipBranch(key)
        fresh == Call(op, key, Null, "queued", Null, 0, branch)
    IN  /\ calls' = Append(calls,
                       IF branch = "stored" THEN Continue(fresh, GetValue(items, key))
                       ELSE IF branch = "queued" THEN fresh
                       ELSE IF branch = "loader" THEN Settle(fresh, "loader", Null)
                       ELSE Continue(fresh, Null))
        /\ zipQueue' = IF branch = "queued"
                       THEN [zipQueue EXCEPT ![key] = Append(@, id)]
                       ELSE zipQueue

GetZip(key) ==
    /\ ~hung
    /\ Len(calls) < MaxCalls
    /\ StartGetZip("getZip", key)
    /\ emitted' = <<>>
    /\ notified' = <<>>
    /\ UNCHANGED useVars
    /\ UNCHANGED <<items, policy, canMeasureSize, evictTimer, timers, now, hung,
                   pruneRuns, loader, zipBuffer, evictedKeys>>

\* getText(key), up to its first await
GetText(key) ==
    /\ ~hung
    /\ Len(calls) < MaxCalls
    /\ IF key \in DOMAIN zipBuffer
       THEN /\ calls' = Append(calls, Call("getText", key, Null, "resolved",
                                           zipBuffer[key], 0, "staged"))
            /\ UNCHANGED zipQueue
       ELSE StartGetZip("getText", key)
    /\ emitted' = <<>>
    /\ notified' = <<>>
    /\ UNCHANGED useVars
    /\ UNCHANGED <<items, policy, canMeasureSize, evictTimer, timers, now, hung,
                   pruneRuns, loader, zipBuffer, evictedKeys>>

\* mutant of LoadedForZip: whatever the loader gave counts as a miss, and the
\* loader is called again
LoadedForZipRetry(c, text) ==
    /\ ~hung
    /\ c \in 1..Len(calls)
    /\ calls[c].phase = "loader"
    /\ Len(calls) < MaxCalls
    /\ calls' = Append(calls, Call("addText", calls[c].key, text, "resolved",
                                   Null, c, "empty"))
    /\ emitted' = GetEvents(items, calls[c].key)
    /\ notified' = <<>>
    /\ UNCHANGED useVars
    /\ UNCHANGED <<items, policy, canMeasureSize, evictTimer, timers, now, hung,
                   pruneRuns, loader, zipBuffer, zipQueue, evictedKeys>>

\* getZip's loader resolves with text: addText(key, text) starts; if it
\* returns at once (empty text) super.get(key) follows
LoadedForZip(c, text) ==
    /\ ~hung
    /\ c \in 1..Len(calls)
    /\ calls[c].phase = "loader"
    /\ Len(calls) < MaxCalls
    /\ LET key == calls[c].key
           waiting == [calls EXCEPT ![c] =
                          IF IsEmpty(text) THEN Continue(@, GetValue(items, key))
                          ELSE Settle(@, "addText", Null)]
       IN  /\ IF IsEmpty(text)
              THEN /\ calls' = Append(waiting, Call("addText", key, text, "resolved",
                                                    Null, c, "empty"))
                   /\ emitted' = GetEvents(items, key)
                   /\ UNCHANGED <<zipBuffer, zipQueue, evictedKeys>>
              ELSE /\ BeginZip(key, text)
                   /\ calls' = Append(waiting, Call("addText", key, text, "gzip",
                                                    Null, c, "zip"))
                   /\ emitted' = <<>>
                   /\ evictedKeys' = evictedKeys \ {key}
    /\ notified' = <<>>
    /\ UNCHANGED useVars
    /\ UNCHANGED <<items, policy, canMeasureSize, evictTimer, timers, now, hung,
                   pruneRuns, loader>>

\* getText's own loader call resolves with value: addText is started and not
\* awaited, value is returned
LoadedForText(c, value) ==
    /\ ~hung
    /\ c \in 1..Len(calls)
    /\ calls[c].phase = "reload"
    /\ Len(calls) < MaxCalls
    /\ LET key == calls[c].key
           done == [calls EXCEPT ![c] = Settle(@, "resolved", value)]
       IN  IF IsEmpty(value)
           THEN /\ calls' = Append(done, Call("addText", key, value, "resolved",
                                              Null, 0, "empty"))
                /\ UNCHANGED <<zipBuffer, zipQueue, evictedKeys>>
           ELSE /\ BeginZip(key, value)
                /\ calls' = Append(done, Call("addText", key, value, "gzip",
                                              Null, 0, "zip"))
                /\ evictedKeys' = evictedKeys \ {key}
    /\ emitted' = <<>>
    /\ notified' = <<>>
    /\ UNCHANGED useVars
    /\ UNCHANGED <<items, policy, canMeasureSize, evictTimer, timers, now, hung,
                   pruneRuns, loader>>

\* unzip resolves: getText returns the text
UnzipDone(c) ==
    /\ ~hung
    /\ c \in 1..Len(calls)
    /\ calls[c].phase = "unzip"
    /\ calls' = [calls EXCEPT ![c] = Settle(@, "resolved", Unzip(@.result))]
    /\ emitted' = <<>>
    /\ notified' = <<>>
    /\ UNCHANGED useVars
    /\ UNCHANGED <<items, policy, canMeasureSize, evictTimer, timers, now, hung,
                   pruneRuns, loader, zipBuffer, zipQueue, evictedKeys>>

\* the prune timeout of a CompressCache fires
ZipTimerFire(h) ==
    /\ ~hung
    /\ h \in timers
    /\ timers' = timers \ {h}
    /\ Prune
    /\ pruneRuns' = pruneRuns + 1
    /\ evictedKeys' = evictedKeys \cup (KeySet(items) \ KeySet(items'))
    /\ notified' = <<>>
    /\ UNCHANGED useVars
    /\ UNCHANGED <<policy, canMeasureSize, evictTimer, now, loader, zipBuffer,
                   zipQueue, calls>>

(***************************************************************************)
(* The compressing cache: new CompressCache(loader?, policy?), then any    *)
(* calls, completions and timeouts.                                        *)
(***************************************************************************)
ZipPolicyInputs == {p \in PolicyInputs : DOMAIN p \subseteq {"maxItems"} /\ \A f \in DOMAIN p : p[f] = 1}

InitZip ==
    /\ items = <<>>
    /\ policy \in {Merge(defaultPolicy, given) : given \in ZipPolicyInputs}
    /\ canMeasureSize = TRUE
    /\ evictTimer = 0
    /\ timers = {}
    /\ now = 0
    /\ emitted = <<>>
    /\ hung = FALSE
    /\ pruneRuns = 0
    /\ loader \in BOOLEAN
    /\ zipBuffer = <<>>
    /\ zipQueue = <<>>
    /\ calls = <<>>
    /\ notified = <<>>
    /\ evictedKeys = {}
    /\ returned = NoCall
    /\ observed = <<>>
    /\ recent = <<>>
    /\ tightened = FALSE

NextZip ==
    \/ \E key \in ZipKeys, value \in Texts : AddText(key, value)
    \/ \E a \in 1..Len(calls) : GzipDone(a)
    \/ \E key \in ZipKeys : GetZip(key)
    \/ \E key \in ZipKeys : GetText(key)
    \/ \E c \in 1..Len(calls), text \in LoaderTexts : LoadedForZip(c, text)
    \/ \E c \in 1..Len(calls), value \in LoaderTexts : LoadedForText(c, value)
    \/ \E c \in 1..Len(calls) : UnzipDone(c)
    \/ \E h \in timers : ZipTimerFire(h)

SpecZip == InitZip /\ [][NextZip]_vars

(***************************************************************************)
(* CompressCache with a loader and maxItems = 1, every loader, gzip and    *)
(* unzip call completing.  A call is made only when the calls it can lead  *)
(* to still fit in MaxCalls, so that no continuation is cut off.           *)
(***************************************************************************)
\* the addText calls the continuations still to run can make: one by a getZip
\* waiting for its loader, two by a getText waiting for getZip's loader (the
\* second after a reload), one by a getText waiting for its reload
Reserved ==
    Cardinality({c \in 1..Len(calls) :
                    calls[c].op = "getZip" /\ calls[c].phase = "loader"})
    + 2 * Cardinality({c \in 1..Len(calls) :
                          calls[c].op = "getText" /\ calls[c].phase = "loader"})
    + Cardinality({c \in 1..Len(calls) : calls[c].phase = "reload"})

Room(need) == Len(calls) + Reserved + need <= MaxCalls

InitLoad == InitZip /\ loader /\ policy.maxItems = 1

\* the text callers add while loads are under way
LoadTexts == {Str(<<1>>)}

NextLoad ==
    \/ \E key \in ZipKeys, value \in LoadTexts : Room(1) /\ AddText(key, value)
    \/ \E key \in ZipKeys : Room(2) /\ GetZip(key)
    \/ \E key \in ZipKeys : Room(3) /\ GetText(key)
    \/ \E a \in 1..Len(calls) : GzipDone(a)
    \/ \E c \in 1..Len(calls), text \in LoaderTexts : LoadedForZip(c, text)
    \/ \E c \in 1..Len(calls), value \in LoaderTexts : LoadedForText(c, value)
    \/ \E c \in 1..Len(calls) : UnzipDone(c)
    \/ \E h \in timers : ZipTimerFire(h)

FairLoad ==
    /\ InitLoad
    /\ [][NextLoad]_vars
    /\ WF_vars(\E a \in 1..Len(calls) : GzipDone(a))
    /\ WF_vars(\E c \in 1..Len(calls), text \in LoaderTexts : LoadedForZip(c, text))
    /\ WF_vars(\E c \in 1..Len(calls), value \in LoaderTexts : LoadedForText(c, value))
    /\ WF_vars(\E c \in 1..Len(calls) : UnzipDone(c))

(***************************************************************************)
(* CompressCache with a loader that can fail: the promise loader(key)      *)
(* returns rejects, and with it the getZip promise chained on it (line     *)
(* 361) or the await of getText (lines 374 and 377).                       *)
(***************************************************************************)
LoaderError == [t |-> "error", d |-> <<404>>]

\* mutant of LoaderFail: the failure is taken for a miss
LoaderFailSwallowed(c) ==
    /\ ~hung
    /\ c \in 1..Len(calls)
    /\ calls[c].phase \in {"loader", "reload"}
    /\ calls' = [calls EXCEPT ![c] = Settle(@, "resolved", Null)]
    /\ emitted' = <<>>
    /\ notified' = <<>>
    /\ UNCHANGED useVars
    /\ UNCHANGED <<items, policy, canMeasureSize, evictTimer, timers, now, hung,
                   pruneRuns, loader, zipBuffer, zipQueue, evictedKeys>>

\* the loader call that call c waits for fails
LoaderFail(c) ==
    /\ ~hung
    /\ c \in 1..Len(calls)
    /\ calls[c].phase \in {"loader", "reload"}
    /\ calls' = [calls EXCEPT ![c] = Settle(@, "rejected", LoaderError)]
    /\ emitted' = <<>>
    /\ notified' = <<>>
    /\ UNCHANGED useVars
    /\ UNCHANGED <<items, policy, canMeasureSize, evictTimer, timers, now, hung,
                   pruneRuns, loader, zipBuffer, zipQueue, evictedKeys>>

InitLoadFail == InitZip /\ loader /\ policy = defaultPolicy

NextLoadFail ==
    \/ \E key \in ZipKeys, value \in LoadTexts : AddText(key, value)
    \/ \E key \in ZipKeys : GetZip(key)
    \/ \E key \in ZipKeys : GetText(key)
    \/ \E a \in 1..Len(calls) : GzipDone(a)
    \/ \E c \in 1..Len(calls), text \in LoaderTexts : LoadedForZip(c, text)
    \/ \E c \in 1..Len(calls), value \in LoaderTexts : LoadedForText(c, value)
    \/ \E c \in 1..Len(calls) : LoaderFail(c)
    \/ \E c \in 1..Len(calls) : UnzipDone(c)

SpecLoadFail == InitLoadFail /\ [][NextLoadFail]_vars

(***************************************************************************)
(* CompressCache with a codec that can fail: gzip rejects (part_001, line  *)
(* 11), the await in addText throws, and neither endZip nor super.add run. *)
(***************************************************************************)
GzipError == [t |-> "error", d |-> <<31>>]

GzipFail(a) ==
    /\ ~hung
    /\ a \in 1..Len(calls)
    /\ calls[a].op = "addText"
    /\ calls[a].phase = "gzip"
    /\ calls' = [i \in 1..Len(calls) |->
                    IF i = a \/ i = calls[a].parent
                    THEN Settle(calls[i], "rejected", GzipError)
                    ELSE calls[i]]
    /\ emitted' = <<>>
    /\ notified' = <<>>
    /\ UNCHANGED useVars
    /\ UNCHANGED <<items, policy, canMeasureSize, evictTimer, timers, now, hung,
                   pruneRuns, loader, zipBuffer, zipQueue, evictedKeys>>

InitZipFail == InitZip /\ ~loader

NextZipFail ==
    \/ \E key \in ZipKeys, value \in Texts : AddText(key, value)
    \/ \E a \in 1..Len(calls) : GzipDone(a)
    \/ \E a \in 1..Len(calls) : GzipFail(a)
    \/ \E key \in ZipKeys : GetZip(key)

SpecZipFail == InitZipFail /\ [][NextZipFail]_vars

(***************************************************************************)
(* The public methods of Cache<T> (src/src/cache.ts) as a caller and a     *)
(* listener of ItemsEvicted see them: every call records what it returned, *)
(* and the listener looks each key of the payload up while it is notified. *)
(***************************************************************************)
UseKeys == {"k1", "k2"}

\* the values callers add: absent, the empty string, a string, an object
UseValues == {Null, Str(<<>>), Str(<<1, 2, 3>>), Obj}

\* the policies callers pass: no threshold, or one
UsePolicyInputs == {p \in PolicyInputs : Cardinality(DOMAIN p) <= 1}

\* every threshold of the policy is "no limit"
NoLimit(pol) == pol.maxItems <= 0 /\ pol.maxAge <= 0 /\ pol.maxBytes <= 0

\* mutant of StoreAtEmit: prune emits before it deletes
StoreAtEmitBefore(before, after) == before

\* the store a listener finds when emit calls it: prune deletes, then emits
StoreAtEmit(before, after) == after

\* the listener: contains(key, true) and get(key, true) of every payload key
Listen(its, remove) ==
    [i \in 1..Len(remove) |->
        [key |-> remove[i],
         contains |-> Contains(its, remove[i], TRUE),
         value |-> GetValue(its, remove[i])]]

\* add(key, value)
UseAdd(key, value) ==
    /\ ~hung
    /\ CacheAdd(key, value)
    /\ emitted' = <<>>
    /\ returned' = NoCall
    /\ observed' = <<>>
    /\ recent' = IF IsValue(value) THEN MapPut(recent, key, value) ELSE recent
    /\ tightened' = FALSE
    /\ UNCHANGED <<policy, now, hung, zipVars>>

\* mutant of Get: a hit refreshes the time the entry was added
GetTouch(key, silent) ==
    /\ ~hung
    /\ returned' = Returned("get", <<key, silent>>, GetValue(items, key))
    /\ emitted' = IF silent THEN <<>> ELSE GetEvents(items, key)
    /\ observed' = <<>>
    /\ items' = [i \in 1..Len(items) |->
                    IF items[i].key = key THEN [items[i] EXCEPT !.added = now]
                    ELSE items[i]]
    /\ UNCHANGED <<policy, canMeasureSize, evictTimer, timers, now, hung,
                   pruneRuns, zipVars, recent, tightened>>

\* get(key, silent)
Get(key, silent) ==
    /\ ~hung
    /\ returned' = Returned("get", <<key, silent>>, GetValue(items, key))
    /\ emitted' = IF silent THEN <<>> ELSE GetEvents(items, key)
    /\ observed' = <<>>
    /\ UNCHANGED <<items, policy, canMeasureSize, evictTimer, timers, now, hung,
                   pruneRuns, zipVars, recent, tightened>>

\* contains(key, allowEmpty)
ContainsKey(key, allowEmpty) ==
    /\ ~hung
    /\ returned' = Returned("contains", <<key, allowEmpty>>,
                            Contains(items, key, allowEmpty))
    /\ emitted' = <<>>
    /\ observed' = <<>>
    /\ UNCHANGED <<items, policy, canMeasureSize, evictTimer, timers, now, hung,
                   pruneRuns, zipVars, recent, tightened>>

\* get length()
GetLength ==
    /\ ~hung
    /\ returned' = Returned("length", <<>>, Len(items))
    /\ emitted' = <<>>
    /\ observed' = <<>>
    /\ UNCHANGED <<items, policy, canMeasureSize, evictTimer, timers, now, hung,
                   pruneRuns, zipVars, recent, tightened>>

\* get size()
GetSize ==
    /\ ~hung
    /\ returned' = Returned("size", <<>>, Size)
    /\ emitted' = <<>>
    /\ observed' = <<>>
    /\ UNCHANGED <<items, policy, canMeasureSize, evictTimer, timers, now, hung,
                   pruneRuns, zipVars, recent, tightened>>

\* remove(key)
Remove(key) ==
    /\ ~hung
    /\ items' = MapDelete(items, key)
    /\ emitted' = <<>>
    /\ returned' = NoCall
    /\ observed' = <<>>
    /\ recent' = MapDel(recent, key)
    /\ UNCHANGED <<policy, canMeasureSize, evictTimer, timers, now, hung,
                   pruneRuns, zipVars, tightened>>

\* clear()
Clear ==
    /\ ~hung
    /\ items' = <<>>
    /\ emitted' = <<>>
    /\ returned' = NoCall
    /\ observed' = <<>>
    /\ recent' = <<>>
    /\ UNCHANGED <<policy, canMeasureSize, evictTimer, timers, now, hung,
                   pruneRuns, zipVars, tightened>>

\* the thresholds the store must meet; bytes says whether the byte threshold
\* is among them
Satisfies(its, pol, time, bytes) ==
    /\ pol.maxAge > 0 => \A i \in 1..Len(its) : its[i].added >= time - pol.maxAge
    /\ pol.maxItems > 0 => Len(its) <= pol.maxItems
    /\ (bytes /\ pol.maxBytes > 0) => SumSizes(its) <= pol.maxBytes

\* a no-limit policy is replaced by a restrictive one the contents violate
Tightens(old, new) ==
    NoLimit(old) /\ ~NoLimit(new) /\ ~Satisfies(items, new, now, TRUE)

\* mutant of UsePolicy: the policy is replaced and no prune is scheduled
UsePolicyUnarmed(given) ==
    /\ ~hung
    /\ policy' = Merge(defaultPolicy, given)
    /\ emitted' = <<>>
    /\ returned' = NoCall
    /\ observed' = <<>>
    /\ tightened' = Tightens(policy, policy')
    /\ pruneRuns' = 0
    /\ UNCHANGED <<items, canMeasureSize, evictTimer, timers, now, hung, zipVars,
                   recent>>

\* updatePolicy(policy)
UsePolicy(given) ==
    /\ ~hung
    /\ policy' = Merge(defaultPolicy, given)
    /\ SchedulePrune
    /\ emitted' = <<>>
    /\ returned' = NoCall
    /\ observed' = <<>>
    /\ tightened' = Tightens(policy, policy')
    /\ UNCHANGED <<items, canMeasureSize, now, hung, zipVars, recent>>

\* the prune timeout fires; the listener runs inside emit
UseTimerFire(h) ==
    /\ ~hung
    /\ h \in timers
    /\ timers' = timers \ {h}
    /\ Prune
    /\ pruneRuns' = pruneRuns + 1
    /\ returned' = NoCall
    /\ observed' = IF emitted' = <<>> THEN <<>>
                   ELSE Listen(StoreAtEmit(items, items'), emitted'[1].payload)
    /\ recent' = <<>>
    /\ UNCHANGED <<policy, canMeasureSize, evictTimer, now, zipVars, tightened>>

\* the clock advances
UseTick ==
    /\ ~hung
    /\ now < MaxTime
    /\ now' = now + 1
    /\ emitted' = <<>>
    /\ returned' = NoCall
    /\ observed' = <<>>
    /\ UNCHANGED <<items, policy, canMeasureSize, evictTimer, timers, hung,
                   pruneRuns, zipVars, recent, tightened>>

InitUse ==
    /\ Init
    /\ policy \in {Merge(defaultPolicy, given) : given \in UsePolicyInputs}

NextUse ==
    \/ \E key \in UseKeys, value \in UseValues : UseAdd(key, value)
    \/ \E key \in UseKeys, silent \in BOOLEAN : Get(key, silent)
    \/ \E key \in UseKeys, allowEmpty \in BOOLEAN : ContainsKey(key, allowEmpty)
    \/ GetLength
    \/ GetSize
    \/ \E key \in UseKeys : Remove(key)
    \/ Clear
    \/ \E given \in UsePolicyInputs : UsePolicy(given)
    \/ \E h \in timers : UseTimerFire(h)
    \/ UseTick

SpecUse == InitUse /\ [][NextUse]_vars

\* a cache without thresholds is filled, then its policy is replaced; the
\* event loop runs a timeout that is due
ChangeValues == {Str(<<1, 2, 3>>), Obj}

\* the count and byte thresholds: without the clock no entry ages
ChangePolicyInputs == {p \in UsePolicyInputs : "maxAge" \notin DOMAIN p}

InitChange == Init /\ policy = defaultPolicy

NextChange ==
    \/ \E key \in UseKeys, value \in ChangeValues : UseAdd(key, value)
    \/ \E given \in ChangePolicyInputs : UsePolicy(given)
    \/ \E h \in timers : UseTimerFire(h)

FairUse ==
    /\ InitChange
    /\ [][NextChange]_vars
    /\ WF_vars(\E h \in timers : UseTimerFire(h))

(***************************************************************************)
(* A cache without thresholds, so that no prune pass evicts: entries go    *)
(* only by remove and clear.                                               *)
(***************************************************************************)
NextRemove ==
    \/ \E key \in UseKeys, value \in UseValues : UseAdd(key, value)
    \/ \E key \in UseKeys : Remove(key)
    \/ Clear
    \/ \E key \in UseKeys, allowEmpty \in BOOLEAN : ContainsKey(key, allowEmpty)
    \/ \E h \in timers : UseTimerFire(h)
    \/ UseTick

SpecRemove == InitChange /\ [][NextRemove]_vars

(***************************************************************************)
(* Claims about CompressCache, stated over SpecZip.                        *)
(***************************************************************************)
CallIds == 1..Len(calls)

\* the buffers the compressions pending when call c was made produce
InflightBuffers(c) == {Gzip(calls[a].text) : a \in calls[c].inflight}

\* the plaintexts of the compressions pending when call c was made
InflightTexts(c) == {calls[a].text : a \in calls[c].inflight}

\* C1: a getZip(key) made while an addText(key, text) is compressing takes
\* no loader call, is resolved once the compressions pending when it was made
\* have completed, and is resolved with the buffer such an addText produced.
C1_SharedCompression ==
    \A c \in CallIds :
        (calls[c].op = "getZip" /\ calls[c].inflight # {}) =>
            /\ calls[c].branch # "loader"
            /\ (calls[c].inflight \cap Pending(calls[c].key) = {}) =>
                   calls[c].phase = "resolved"
            /\ calls[c].phase = "resolved" => calls[c].result \in InflightBuffers(c)

\* C2: every continuation waiting for the compression of a key is in the
\* queue of that key while it waits, the continuations a completed compression
\* resolves are resolved in the order they registered and with a buffer, and
\* a key with no pending compression has no queue entry.
C2_QueueResolved ==
    /\ \A c \in CallIds :
           calls[c].phase = "queued" =>
               /\ calls[c].key \in DOMAIN zipQueue
               /\ InSeq(c, zipQueue[calls[c].key])
    /\ \A i, j \in 1..Len(notified) : i < j => notified[i] < notified[j]
    /\ \A i \in 1..Len(notified) :
           calls[notified[i]].op = "getZip" =>
               calls[notified[i]].result \in InflightBuffers(notified[i])
    /\ \A key \in ZipKeys : Pending(key) = {} => key \notin DOMAIN zipQueue

\* C3: with a codec and a loader that never fail, no call of addText, getZip
\* or getText ends rejected.
C3_NoRejection == \A c \in CallIds : calls[c].phase # "rejected"

\* C4: a getText(key) made while a compression of key is pending returns at
\* once, from the staged plaintext, the text of a pending compression.
C4_StagedWhilePending ==
    \A c \in CallIds :
        (calls[c].op = "getText" /\ calls[c].inflight # {}) =>
            /\ calls[c].branch = "staged"
            /\ calls[c].phase = "resolved"
            /\ calls[c].result \in InflightTexts(c)

\* C5: a getText(key) made after addText(key, text) with non-empty text and
\* no eviction of the key resolves to text; after several addText calls of
\* the key, all completed, it resolves to the text of the last one.
C5_RoundTrip ==
    \A c \in CallIds :
        (calls[c].op = "getText" /\ calls[c].expect # Null
                                 /\ calls[c].phase = "resolved") =>
            calls[c].result = calls[c].expect


(***************************************************************************)
(* Vocabulary of the claims about a prune pass.  A prune pass is a step    *)
(* TimerFire(h); the store before it is items, after it items'.            *)
(***************************************************************************)
PruneStep == \E h \in timers : TimerFire(h)

EntrySet(its) == {its[i] : i \in 1..Len(its)}

\* the entries a step removed, and whether it touched the ones it kept
RemovedBy(its, its2) == EntrySet(its) \ EntrySet(its2)

KeptUntouched(its, its2) ==
    LET Kept(e) == e \in EntrySet(its2) IN its2 = SelectSeq(its, Kept)

\* every removed entry is at least as old as every entry kept
OldestFirst(its, its2) ==
    \A e \in RemovedBy(its, its2), r \in EntrySet(its2) : e.added <= r.added

EntryOf(its, key) == CHOOSE e \in EntrySet(its) : e.key = key

\* the step emitted exactly one ItemsEvicted notification; its payload names
\* exactly the removed keys, each once
OneEviction(its, its2, ev) ==
    /\ Len(ev) = 1
    /\ ev[1].type = "ItemsEvicted"
    /\ {ev[1].payload[i] : i \in 1..Len(ev[1].payload)}
           = {e.key : e \in RemovedBy(its, its2)}
    /\ Len(ev[1].payload) = Cardinality(RemovedBy(its, its2))

\* the entry the pass removed last
LastRemoved(its, ev) == EntryOf(its, ev[1].payload[Len(ev[1].payload)])

OnlyMaxItems(pol) == pol.maxItems > 0 /\ pol.maxAge <= 0 /\ pol.maxBytes <= 0
OnlyMaxBytes(pol) == pol.maxBytes > 0 /\ pol.maxAge <= 0 /\ pol.maxItems <= 0
OnlyMaxAge(pol) == pol.maxAge > 0 /\ pol.maxItems <= 0 /\ pol.maxBytes <= 0

JustEvicted == Len(emitted) = 1 /\ emitted[1].type = "ItemsEvicted"

(***************************************************************************)
(* C6: a burst of add / updatePolicy calls leads to exactly one prune pass *)
(* after its last call: at most one timeout is pending at any time, the    *)
(* pending one is the one the cache holds, and once a call has armed the   *)
(* timer either that timeout is still pending or exactly one prune pass    *)
(* has run since.                                                          *)
(***************************************************************************)
C6_OnePrunePerBurst ==
    /\ Cardinality(timers) <= 1
    /\ timers \subseteq {evictTimer}
    /\ evictTimer # 0 => Cardinality(timers) + pruneRuns = 1

\* several adds, then the one prune pass, and no timeout left
C6_Witness == pruneRuns = 1 /\ timers = {} /\ Len(items) >= 2

(***************************************************************************)
(* C7: with maxItems = n > 0 the only limit, a prune pass on m > n entries *)
(* removes exactly m - n entries, none younger than one it keeps, and      *)
(* emits one ItemsEvicted notification naming exactly those keys; on       *)
(* m <= n entries it removes nothing (and emits nothing).                  *)
(***************************************************************************)
C7_Step ==
    IF Len(items) > policy.maxItems
    THEN /\ Len(items') = policy.maxItems
         /\ KeptUntouched(items, items')
         /\ OldestFirst(items, items')
         /\ OneEviction(items, items', emitted')
    ELSE items' = items /\ emitted' = <<>>

C7_CountOnly == [][PruneStep /\ OnlyMaxItems(policy) => C7_Step]_vars

\* three entries cut down to one: the two oldest were evicted
C7_Witness ==
    /\ JustEvicted
    /\ OnlyMaxItems(policy)
    /\ policy.maxItems = 1
    /\ Len(emitted[1].payload) = 2
    /\ Len(items) = 1

(***************************************************************************)
(* C8: with maxBytes = N > 0 the only limit and sizes measurable, a prune  *)
(* pass removes the shortest oldest-first prefix that brings the total     *)
(* size to N or less: what it removes is no younger than what it keeps and *)
(* was evicted in ascending addedAt order, the total left is <= N, before  *)
(* the last removal the total was still > N, and nothing is removed when   *)
(* the total is <= N to begin with.                                        *)
(***************************************************************************)
C8_Step ==
    IF SumSizes(items) > policy.maxBytes
    THEN /\ KeptUntouched(items, items')
         /\ OldestFirst(items, items')
         /\ OneEviction(items, items', emitted')
         /\ \A i, j \in 1..Len(emitted'[1].payload) :
                i < j => EntryOf(items, emitted'[1].payload[i]).added
                             <= EntryOf(items, emitted'[1].payload[j]).added
         /\ SumSizes(items') <= policy.maxBytes
         /\ SumSizes(items') + LastRemoved(items, emitted').size > policy.maxBytes
    ELSE items' = items /\ emitted' = <<>>

C8_BytesOnly ==
    [][PruneStep /\ OnlyMaxBytes(policy) /\ canMeasureSize => C8_Step]_vars

\* one entry was enough: the pass stopped with two entries left
C8_Witness ==
    /\ JustEvicted
    /\ OnlyMaxBytes(policy)
    /\ canMeasureSize
    /\ Len(emitted[1].payload) = 1
    /\ Len(items) = 2
    /\ SumSizes(items) = policy.maxBytes

(***************************************************************************)
(* C9: with maxAge = A > 0 the only limit, a prune pass at time now        *)
(* removes exactly the entries with addedAt < now - A and keeps every      *)
(* entry with addedAt >= now - A.                                          *)
(***************************************************************************)
C9_Step ==
    LET Young(e) == e.added >= now - policy.maxAge
    IN  items' = SelectSeq(items, Young)

C9_AgeOnly == [][PruneStep /\ OnlyMaxAge(policy) => C9_Step]_vars

\* an entry was evicted while one exactly maxAge old was kept
C9_Witness ==
    /\ JustEvicted
    /\ OnlyMaxAge(policy)
    /\ \E e \in EntrySet(items) : e.added = now - policy.maxAge

(***************************************************************************)
(* C10: with any combination of thresholds, a prune pass removes the       *)
(* entries older than the age cutoff, then oldest first as few of the      *)
(* others as brings the count to maxItems and the total size to maxBytes,  *)
(* and nothing else; afterwards every active threshold holds of the store. *)
(***************************************************************************)
AgedOut(its, pol, time) ==
    {e \in EntrySet(its) : pol.maxAge > 0 /\ e.added < time - pol.maxAge}

\* what C10 says of one pass
SequentialPasses(its, its2, ev, pol, time, bytes) ==
    LET more == RemovedBy(its, its2) \ AgedOut(its, pol, time)
    IN  /\ KeptUntouched(its, its2)
        /\ AgedOut(its, pol, time) \subseteq RemovedBy(its, its2)
        /\ \A e \in more, r \in EntrySet(its2) : e.added <= r.added
        /\ Satisfies(its2, pol, time, bytes)
        /\ RemovedBy(its, its2) # {} => OneEviction(its, its2, ev)
        /\ RemovedBy(its, its2) = {} => ev = <<>>
        \* no more than needed: with the last removed entry put back, the
        \* count or the size would be over its limit
        /\ more # {} =>
               \/ pol.maxItems > 0 /\ Len(its2) + 1 > pol.maxItems
               \/ /\ bytes /\ pol.maxBytes > 0
                  /\ SumSizes(its2) + LastRemoved(its, ev).size > pol.maxBytes

\* C10 as stated: the byte threshold is enforced whenever maxBytes is set
C10_AsStated ==
    [][PruneStep => SequentialPasses(items, items', emitted', policy, now, TRUE)]_vars

\* C10 as amended: the byte pass runs, and the byte threshold holds
\* afterwards, only while the cache can measure sizes
C10_Sequential ==
    [][PruneStep =>
         SequentialPasses(items, items', emitted', policy, now, canMeasureSize)]_vars

\* all three thresholds set: two entries evicted, one kept
C10_Witness ==
    /\ JustEvicted
    /\ policy.maxAge > 0 /\ policy.maxItems > 0 /\ policy.maxBytes > 0
    /\ canMeasureSize
    /\ Len(emitted[1].payload) = 2
    /\ Len(items) = 1

(***************************************************************************)
(* C11: when an ItemsEvicted notification is delivered, every key of its   *)
(* payload is already deleted: the listener, looking each payload key up   *)
(* with contains and the silent get while it is notified, finds it absent. *)
(***************************************************************************)
C11_DeletedBeforeNotified ==
    /\ JustEvicted => Len(observed) = Len(emitted[1].payload)
    /\ \A i \in 1..Len(observed) :
           /\ JustEvicted
           /\ observed[i].key = emitted[1].payload[i]
           /\ ~observed[i].contains
           /\ observed[i].value = Null

\* a notification of an evicted key, with a key left in the store
C11_Witness == Len(observed) = 1 /\ Len(items) = 1

(***************************************************************************)
(* C12: a prune pass emits ItemsEvicted iff it removed an entry, at most   *)
(* once; the payload names each removed key once: first the keys evicted   *)
(* for their age, then those evicted for the count and the size, each      *)
(* group oldest first.  On an empty cache, or with every threshold at no   *)
(* limit, the pass changes nothing and emits nothing.                      *)
(***************************************************************************)
C12_Step ==
    /\ KeptUntouched(items, items')
    /\ IF RemovedBy(items, items') = {}
       THEN emitted' = <<>>
       ELSE /\ OneEviction(items, items', emitted')
            /\ LET pay == emitted'[1].payload
                   aged == {e.key : e \in AgedOut(items, policy, now)}
                   n == Cardinality(aged)
               IN  /\ \A i \in 1..Len(pay) : (i <= n) <=> (pay[i] \in aged)
                   /\ \A i, j \in 1..Len(pay) :
                          (i < j /\ ((j <= n) \/ (i > n))) =>
                              EntryOf(items, pay[i]).added
                                  <= EntryOf(items, pay[j]).added
    /\ (Len(items) = 0 \/ NoLimit(policy)) => (items' = items /\ emitted' = <<>>)

C12_EvictionNotice == [][PruneStep => C12_Step]_vars

\* three entries evicted for their age in one pass
C12_Witness ==
    /\ JustEvicted
    /\ policy.maxAge > 0
    /\ Len(emitted[1].payload) = 3
    /\ items = <<>>

(***************************************************************************)
(* C13: get(key) of a key missing from the store returns null and emits    *)
(* exactly one KeyNotFound carrying the key, or nothing when silent; get   *)
(* of a present key emits nothing.                                         *)
(***************************************************************************)
C13_Step(key, silent) ==
    IF key \notin KeySet(items)
    THEN /\ returned'.value = Null
         /\ emitted' = IF silent THEN <<>> ELSE <<KeyNotFound(key)>>
    ELSE emitted' = <<>>

C13_MissNotified ==
    [][\A key \in UseKeys, silent \in BOOLEAN :
           Get(key, silent) => C13_Step(key, silent)]_vars

\* a miss that was notified
C13_Witness ==
    /\ returned.op = "get"
    /\ returned.value = Null
    /\ emitted = <<KeyNotFound(returned.args[1])>>

(***************************************************************************)
(* C14: get(key) after add(key, v) with v not absent, and no prune pass,   *)
(* remove or clear in between, returns v; an add of a key already present  *)
(* replaces its entry by one with the new value, the time of the call and  *)
(* the size of the new value, and leaves length and the other entries.     *)
(***************************************************************************)
C14_GetStep(key) == key \in DOMAIN recent => returned'.value = recent[key]

C14_AddStep(key, value) ==
    (IsValue(value) /\ key \in KeySet(items)) =>
        /\ Len(items') = Len(items)
        /\ EntryOf(items', key) =
               [key |-> key, value |-> value, added |-> now,
                size |-> IF canMeasureSize' THEN ByteSize(value) ELSE 0]
        /\ \A i \in 1..Len(items) : items[i].key # key => items'[i] = items[i]

C14_AddThenGet ==
    [][/\ \A key \in UseKeys, silent \in BOOLEAN :
              Get(key, silent) => C14_GetStep(key)
       /\ \A key \in UseKeys, value \in UseValues :
              UseAdd(key, value) => C14_AddStep(key, value)]_vars

\* a get that returned the string added last, later than the other entry
C14_Witness ==
    /\ returned.op = "get"
    /\ returned.args[1] \in DOMAIN recent
    /\ returned.value = Str(<<1, 2, 3>>)
    /\ \E e \in EntrySet(items) : e.key # returned.args[1] /\ e.added < now

(***************************************************************************)
(* C15: contains(key, allowEmpty) is true iff the key is in the store and  *)
(* allowEmpty is true or the value stored under it is not empty.           *)
(***************************************************************************)
C15_Step(key, allowEmpty) ==
    returned'.value =
        (key \in KeySet(items) /\ (allowEmpty \/ ~IsEmpty(GetValue(items, key))))

C15_ContainsNonEmpty ==
    [][\A key \in UseKeys, allowEmpty \in BOOLEAN :
           ContainsKey(key, allowEmpty) => C15_Step(key, allowEmpty)]_vars

(***************************************************************************)
(* C17: the measurability flag, once cleared by the add of an unmeasurable *)
(* value, is never set again by any call or prune pass, and size then      *)
(* returns -1; while the flag is set, every entry holds the byte size of   *)
(* its value and size returns the sum over the entries in the store.       *)
(***************************************************************************)
C17_Step ==
    /\ ~canMeasureSize => ~canMeasureSize'
    /\ canMeasureSize => \A e \in EntrySet(items) : e.size = ByteSize(e.value)
    /\ GetSize =>
           returned'.value = IF canMeasureSize THEN SumSizes(items) ELSE -1

C17_FlagMonotone == [][C17_Step]_vars

\* size is unknown although no unmeasurable entry is left in the store
C17_Witness ==
    /\ returned.op = "size"
    /\ returned.value = -1
    /\ Len(items) = 1
    /\ \A e \in EntrySet(items) : ByteSize(e.value) # -1

(***************************************************************************)
(* C16: after updatePolicy has replaced a no-limit policy by a restrictive *)
(* one on contents that violate it, and unless add is called, a prune pass *)
(* runs and the store then satisfies the new policy.                       *)
(***************************************************************************)
PruneDue == tightened /\ pruneRuns = 0

Pruned(bytes) ==
    ~tightened \/ (pruneRuns > 0 /\ Satisfies(items, policy, now, bytes))

\* C16 as stated: every threshold of the new policy holds after the pass
C16_AsStated == PruneDue ~> Pruned(TRUE)

\* C16 as amended: the byte threshold holds after the pass only while the
\* cache can measure sizes
C16_PolicyTightened == PruneDue ~> Pruned(canMeasureSize)

\* the pass the call scheduled has evicted, and the new policy holds
C16_Witness ==
    /\ tightened
    /\ pruneRuns = 1
    /\ JustEvicted
    /\ Satisfies(items, policy, now, canMeasureSize)

(***************************************************************************)
(* C18: a key has a queue entry exactly while a compression of the key is  *)
(* in flight, whether compressions complete or fail, so a getZip that      *)
(* registered a continuation waits only while a compression is in flight;  *)
(* a failed compression rejects its addText.                               *)
(***************************************************************************)
C18_QueueWhileInFlight ==
    /\ \A key \in ZipKeys : (key \in DOMAIN zipQueue) <=> (Pending(key) # {})
    /\ \A c \in CallIds :
           calls[c].phase = "queued" => Pending(calls[c].key) # {}
    /\ \A c \in CallIds :
           calls[c].result = GzipError => calls[c].phase = "rejected"

(***************************************************************************)
(* C19: getZip(key) resolves at once with the stored buffer when the store *)
(* holds the key, without loader or compressor; else registers in the      *)
(* queue of the key when there is one; else, with a loader, calls the      *)
(* loader, passes its text to addText and resolves with the value then     *)
(* stored under the key; else resolves with null and changes nothing.      *)
(***************************************************************************)
\* the step that makes the call: c is the new call
C19_Issue(key) ==
    LET c == Len(calls) + 1
    IN  IF key \in KeySet(items)
        THEN /\ calls'[c].phase = "resolved"
             /\ calls'[c].result = GetValue(items, key)
             /\ UNCHANGED <<items, zipBuffer, zipQueue>>
        ELSE IF key \in DOMAIN zipQueue
        THEN /\ calls'[c].phase = "queued"
             /\ zipQueue' = [zipQueue EXCEPT ![key] = Append(@, c)]
        ELSE IF loader
        THEN /\ calls'[c].phase = "loader"
             /\ UNCHANGED <<items, zipBuffer, zipQueue>>
        ELSE /\ calls'[c].phase = "resolved"
             /\ calls'[c].result = Null
             /\ emitted' = <<>>
             /\ UNCHANGED <<items, zipBuffer, zipQueue>>

\* the steps of the loader branch of call c: the text goes to addText, and when
\* the call stops waiting it is resolved with the value then stored
C19_Loaded(c) ==
    /\ \A text \in LoaderTexts :
           LoadedForZip(c, text) =>
               /\ Len(calls') = Len(calls) + 1
               /\ calls'[Len(calls')].op = "addText"
               /\ calls'[Len(calls')].text = text
    /\ (calls[c].phase \in {"loader", "addText"}
            /\ calls'[c].phase \notin {"loader", "addText"}) =>
           /\ calls'[c].phase = "resolved"
           /\ calls'[c].result = GetValue(items', calls[c].key)

C19_BranchOrder ==
    [][/\ \A key \in ZipKeys : GetZip(key) => C19_Issue(key)
       /\ \A c \in CallIds :
              (calls[c].op = "getZip" /\ calls[c].branch = "loader") =>
                  C19_Loaded(c)]_vars

(***************************************************************************)
(* C20: with a loader and a maxItems policy, a getZip or getText call on a *)
(* missing key can recurse or loop for ever: some execution in which every *)
(* loader and compression call completes never completes the call.         *)
(***************************************************************************)
Settled(c) == calls[c].phase \in {"resolved", "rejected"}

\* call c was made on a key missing from the store and went to the loader
ViaLoader(c) == c \in CallIds /\ calls[c].branch = "loader"

LoaderFailed(c) == calls[c].phase = "rejected" /\ calls[c].result = LoaderError

C21_Step(c) ==
    /\ LoaderFail(c) =>
           /\ LoaderFailed(c)'
           /\ Len(calls') = Len(calls)
           /\ UNCHANGED <<items, zipBuffer, zipQueue>>
    \* the call stays rejected: no further loader call, no addText
    /\ LoaderFailed(c) => calls'[c] = calls[c]
    \* what the call did before its loader failed: the addText of an empty
    \* text, which returns at once
    /\ LoaderFailed(c)' =>
           \A a \in 1..Len(calls') :
               calls'[a].parent = c => IsEmpty(calls'[a].text)

C21_LoaderFailure == [][\A c \in CallIds : C21_Step(c)]_vars

\* a getText whose second loader call failed, after the first gave the empty
\* text
C21_Witness ==
    \E c \in CallIds :
        /\ calls[c].op = "getText"
        /\ LoaderFailed(c)
        /\ \E a \in CallIds : calls[a].parent = c

(***************************************************************************)
(* C22: after remove(key) contains(key) is false, and after clear() it is  *)
(* false of every key; remove of a key not in the store leaves the store;  *)
(* remove leaves the other entries; neither emits a notification.          *)
(***************************************************************************)
Absent(its, key) == ~Contains(its, key, TRUE) /\ ~Contains(its, key, FALSE)

C22_RemoveStep(key) ==
    /\ Absent(items', key)
    /\ key \notin KeySet(items) => items' = items
    /\ KeptUntouched(items, items')
    /\ RemovedBy(items, items') \subseteq {e \in EntrySet(items) : e.key = key}
    /\ emitted' = <<>>

C22_ClearStep ==
    /\ \A key \in UseKeys : Absent(items', key)
    /\ Len(items') = 0
    /\ emitted' = <<>>

C22_RemoveAndClear ==
    [][/\ \A key \in UseKeys : Remove(key) => C22_RemoveStep(key)
       /\ Clear => C22_ClearStep]_vars

\* contains reports a key absent and the store is empty although an
\* unmeasurable value was added and nothing is evicted: the entry was removed
\* or cleared
C22_Witness ==
    /\ ~canMeasureSize
    /\ returned.op = "contains"
    /\ returned.value = FALSE
    /\ items = <<>>

(***************************************************************************)
(* C23: updatePolicy replaces the policy by the given one merged over the  *)
(* defaults: a threshold left out of the new policy is 0, whatever it was, *)
(* and the prune passes that follow enforce only the thresholds of the new *)
(* policy.                                                                 *)
(***************************************************************************)
C23_PolicyStep(given) ==
    policy' = [f \in PolicyFields |-> IF f \in DOMAIN given THEN given[f] ELSE 0]

\* whatever a pass removes, a threshold of the current policy was exceeded
C23_PruneStep ==
    RemovedBy(items, items') # {} =>
        \/ policy.maxAge > 0 /\ AgedOut(items, policy, now) # {}
        \/ policy.maxItems > 0 /\ Len(items) > policy.maxItems
        \/ policy.maxBytes > 0 /\ SumSizes(items) > policy.maxBytes

C23_PolicyReplaced ==
    [][/\ \A given \in RevertInputs : UpdatePolicy(given) => C23_PolicyStep(given)
       /\ PruneStep => C23_PruneStep]_vars

\* the count limit the cache was made with is gone: a pass has left three
\* entries
C23_Witness ==
    /\ policy.maxItems = 0
    /\ Len(items) = 3
    /\ pruneRuns = 1
    /\ timers = {}

(***************************************************************************)
(* C24: add(key, value) with an absent value creates no entry, leaves the  *)
(* store (an entry of that key included) and the measurability flag as     *)
(* they are, stops nothing, and still clears the pending prune timer and   *)
(* arms a new one.                                                         *)
(***************************************************************************)
C24_Step ==
    /\ items' = items
    /\ canMeasureSize' = canMeasureSize
    /\ ~hung'
    /\ emitted' = <<>>
    /\ evictTimer' \in timers'
    /\ timers' = (timers \ {evictTimer}) \cup {evictTimer'}
    /\ pruneRuns' = 0

C24_AbsentValue ==
    [][\A key \in AbsentKeys : Add(key, Null) => C24_Step]_vars

\* a pass emptied a store that cannot be measured; the add that armed the
\* timer again made no entry and left the flag
C24_Witness ==
    /\ items = <<>>
    /\ ~canMeasureSize
    /\ timers # {}
    /\ pruneRuns = 0

(***************************************************************************)
(* C25: every prune pass terminates.  Whenever the byte pass starts, and   *)
(* at every turn of its loop, the running total is the sum of the sizes of *)
(* the entries left in the working list, so the loop never goes on with an *)
(* empty list; no pass hangs, whatever the store and the policy.           *)
(***************************************************************************)
\* the working list and the remove list the byte pass starts from
BeforeBytePass ==
    CountPass(AgePass([remove |-> <<>>, sorted |-> SortByAdded(items)],
                      policy, now),
              policy)

\* the loop's turns from (sorted, remainingSize) on
RECURSIVE TotalsAgree(_, _, _)
TotalsAgree(sorted, remainingSize, maxBytes) ==
    /\ remainingSize = SumSizes(sorted)
    /\ IF remainingSize > maxBytes
       THEN /\ sorted # <<>>
            /\ TotalsAgree(Tail(sorted), remainingSize - Head(sorted).size,
                           maxBytes)
       ELSE TRUE

C25_PruneTerminates ==
    /\ ~hung
    /\ ~PruneHangs(items, policy, canMeasureSize, now)
    /\ policy.maxBytes > 0 /\ canMeasureSize =>
           TotalsAgree(BeforeBytePass.sorted,
                       TotalSize(items, BeforeBytePass.remove), policy.maxBytes)

\* a pass has just emptied the store by the byte limit alone: what it
\* removed was one entry larger than the limit
C25_Witness ==
    /\ JustEvicted
    /\ Len(emitted[1].payload) = 1
    /\ OnlyMaxBytes(policy)
    /\ canMeasureSize
    /\ items = <<>>
    /\ ~hung

(***************************************************************************)
(* C26: reads never affect eviction.  get and contains leave the store     *)
(* (keys, values, times added, sizes), the policy, the measurability flag  *)
(* and the pending prune timer as they are, so the keys a prune pass would *)
(* evict are the same after the read as before it.                         *)
(***************************************************************************)
C26_ReadStep ==
    \/ \E key \in UseKeys, silent \in BOOLEAN : Get(key, silent)
    \/ \E key \in UseKeys, allowEmpty \in BOOLEAN : ContainsKey(key, allowEmpty)

C26_Step ==
    /\ UNCHANGED <<items, policy, canMeasureSize, evictTimer, timers, pruneRuns>>
    /\ PruneRemove(items', policy', canMeasureSize', now')
           = PruneRemove(items, policy, canMeasureSize, now)

C26_ReadsDoNotEvict == [][C26_ReadStep => C26_Step]_vars

\* get has just returned the value of an entry that is past its maximum age
\* while the prune timer is pending: the entry is still due for eviction
C26_Witness ==
    /\ returned.op = "get"
    /\ returned.value # Null
    /\ timers # {}
    /\ \E e \in AgedOut(items, policy, now) :
           /\ e.key = returned.args[1]
           /\ InSeq(e.key, PruneRemove(items, policy, canMeasureSize, now))

====
